---- MODULE Spec2Model ----
(***************************************************************************)
(* Verification model of the video-generation pipeline of the bot          *)
(* (bot/handlers/avatar.py, bot/handlers/editing.py), of the arq jobs it   *)
(* awaits (arq_jobs.py) and of the payment side of the ledger service      *)
(* (ai_cmaker_webhook/src/api/webhook.py, api/payment.py).                 *)
(*                                                                         *)
(* Spec    : one user's FSM session in Redis and the updates of that user  *)
(*           that aiogram handles concurrently (one asyncio task each).    *)
(* SpecPay : one order of that user: the gateway webhooks, the status      *)
(*           endpoint, the bot's poller and its check_payment_status_job.  *)
(* SpecStored : the same, from an order row stored with any status.        *)
(* SpecLedger : the credits requests on the user's row.                    *)
(* SpecRow : every operation that writes the user's row, over the days.    *)
(* SpecWorker : the avatar and caption stages with the tries of their jobs.*)
(* SpecMusic : the music stage as well, with the tries of its job.         *)
(* SpecPoll : the polling loops of the Heygen and Zapcap adapters and      *)
(*           merge_video_and_music with its temporary files.               *)
(* SpecScript : the script calls of two users (video_script_generator.py). *)
(***************************************************************************)
EXTENDS Integers, FiniteSets, Sequences, TLC

\* Two updates of the same user can be in their handlers at the same time
\* (Dispatcher.start_polling handles every update in a task of its own).
Tasks == {"t1", "t2"}

\* Bounds of the model.
MaxTriggers == 2     \* pipeline-start triggers handled in one behaviour
MaxCredits == 1      \* largest balance a behaviour starts with
MaxPolls == 2        \* check jobs the poller enqueues before its window is over
MaxResults == 2      \* /result requests the service receives for the order
MaxRequests == 2     \* credits/add and credits/deduct requests the ledger receives
MaxAmount == 2       \* largest credits parameter of such a request
MaxTime == 1         \* days the clock of the ledger service advances

None == "None"

VARIABLES
    session,      \* FSM data of the user (RedisStorage), the fields the pipeline uses
    pc,           \* pc[t]: where the handler run by task t stands
    run,          \* run[t]: what the run of task t has done so far
    job,          \* job[t]: the arq job task t enqueued and awaits
    handled,      \* pipeline-start triggers handled so far
    rejections,   \* 'already generating' notices sent so far
    credits_left  \* the user's credits_left in the ledger

pipeVars == <<session, pc, run, job, handled, rejections>>

VARIABLES
    tx,            \* the order's row in table transactions
    gateway,       \* what the payment gateway knows about the order
    credits_total, \* the user's credits_total in the ledger
    poller,        \* where start_payment_checker stands
    checkjob,      \* where the check_payment_status_job it awaits stands
    polls,         \* check jobs the poller has enqueued
    pg_results,    \* the pg_result of every /result request received, in order
    grants,        \* add_credits applied for the order, by who asked for it
    notified,      \* messages about the order sent to the chat, by kind
    check_reply    \* the last /check request: what it found, answered and stored

payVars == <<tx, gateway, credits_total, poller, checkjob, polls, pg_results,
             grants, notified, check_reply>>

\* The variables of payVars that are not columns of the user's row.
payRest == <<tx, gateway, poller, checkjob, polls, pg_results, grants, notified,
             check_reply>>

VARIABLES
    urow,          \* the user's row in table users: is_deleted, is_paid,
                   \* purchase_time and credits_expire_date
    req,           \* req[r]: the credits request that connection r is serving
    requests,      \* credits requests received so far
    expected,      \* the balance the answered requests add up to
    trail,         \* the last two committed writes to the row
    now            \* the clock of the ledger service, in days

ledVars == <<urow, req, requests, expected, trail, now>>

\* The variables of ledVars that are not columns of the user's row.
ledRest == <<req, requests, expected, trail, now>>

VARIABLES
    heygen,        \* HeygenProcessor.generate_video: the polling of one video
    zapcap,        \* ZapcapProcessor.check_task_status: the polling of one task
    merge,         \* merge_video_and_music: one call and its temporary files
    history,       \* the value of HISTORY_KEY in Redis
    scripts        \* scripts[u]: the script call made for user u

svcVars == <<heygen, zapcap, merge, history, scripts>>

vars == <<pipeVars, credits_left, payVars, ledVars, svcVars>>

(***************************************************************************)
(* The session                                                             *)
(***************************************************************************)
Flag == {None, "True", "False"}
Url == {None} \cup Tasks          \* an artifact URL, tagged with the run that made it

NoAvatar == [chosen |-> FALSE, video_url |-> None]
NoVideoEditing == [present |-> FALSE, zapcap_video_url |-> None, music_url |-> None]

SessionType ==
    [is_video_generating : Flag,
     script : BOOLEAN,
     avatar : [chosen : BOOLEAN, video_url : Url],
     video_editing : [present : BOOLEAN, zapcap_video_url : Url, music_url : Url]]

\* A guard that lets every trigger through.
IsGeneratingNever(flag) == FALSE

\* if is_video_generating is not None and is_video_generating:
IsGenerating(flag) == flag # None /\ flag = "True"

\* preserved_data of the success path keeps is_video_generating as stored;
\* the failure path stores is_video_generating=False.
Preserved(s, flag) ==
    [is_video_generating |-> flag, script |-> FALSE,
     avatar |-> NoAvatar, video_editing |-> NoVideoEditing]

(***************************************************************************)
(* The run of one handler task                                             *)
(***************************************************************************)
NewRun == [failed |-> FALSE,      \* a step before delivery failed
           delivered |-> FALSE,   \* send_document of the final video returned
           deducts |-> 0,         \* credits/deduct requests issued
           exc |-> FALSE,         \* an exception is propagating out of the handler
           notices |-> 0,         \* failure notices sent to the chat
           critical |-> FALSE,    \* logging.critical has been called
           snap |-> NoVideoEditing] \* state_data["video_editing"] as last read

NoJob == [name |-> None, status |-> None, result |-> None,
          job_try |-> 0,         \* tries the worker has started
          response |-> None,     \* what the remote API did in the last try
          api |-> None,          \* the remote API the last try's answer came from
          defer |-> 0]           \* seconds the last Retry deferred the job by

Idle == {"idle", "rejected", "returned", "raised"}

InitPipe ==
    /\ session = [is_video_generating |-> None, script |-> TRUE,
                  avatar |-> [chosen |-> TRUE, video_url |-> None],
                  video_editing |-> NoVideoEditing]
    /\ pc = [t \in Tasks |-> "idle"]
    /\ run = [t \in Tasks |-> NewRun]
    /\ job = [t \in Tasks |-> NoJob]
    /\ handled = 0
    /\ rejections = 0

(***************************************************************************)
(* Small helpers for the per-task records                                  *)
(***************************************************************************)
Goto(t, l) == pc' = [pc EXCEPT ![t] = l]
SetFlag(v) == session' = [session EXCEPT !.is_video_generating = v]
Enqueued(n) == [NoJob EXCEPT !.name = n, !.status = "queued"]
Raise(t) == run' = [run EXCEPT ![t].exc = TRUE, ![t].snap = NoVideoEditing]

\* What the awaited job can hand back to job.result().
JobResults(n) ==
    IF n = "heygen_generate_video_job"
    THEN {"url", "error_payload", "raised"}
    ELSE {"url", "raised"}

(***************************************************************************)
(* The arq worker (a process of its own) runs the job to its end           *)
(***************************************************************************)
JobFinish(t) ==
    /\ job[t].status = "queued"
    /\ \E r \in JobResults(job[t].name) :
         job' = [job EXCEPT ![t].status = "complete", ![t].result = r]
    /\ UNCHANGED <<session, pc, run, credits_left, handled, rejections, payVars, ledVars, svcVars>>

(***************************************************************************)
(* The arq worker, one try at a time                                       *)
(***************************************************************************)
\* What the API a job calls does in one try: it succeeds, answers with an
\* HTTP error status ("5xx" is a 503), or the connection fails.
Responses == {"ok", "400", "401", "404", "5xx", "600", "network"}

\* e.response.status_code of the error a response raises.
StatusCode(response) ==
    CASE response = "400" -> 400
      [] response = "401" -> 401
      [] response = "404" -> 404
      [] response = "5xx" -> 503
      [] response = "600" -> 600

\* The remote APIs a job calls, in the order it calls them.
Apis(name) ==
    CASE name = "heygen_generate_video_job" -> <<"heygen">>
      [] name = "zapcap_edit_video_job" -> <<"zapcap">>
      [] name = "generate_music_job" -> <<"openai", "aiml">>

\* WorkerSettings sets no max_tries: arq's default, 5, applies.
max_tries == 5

\* HeygenProcessor._make_request: the exception a response raises; aiohttp
\* raises ClientError when the connection fails.
HeygenRaises(response) ==
    CASE response = "ok" -> None
      [] response = "401" -> "AuthenticationError"
      [] response = "404" -> "ResourceNotFoundError"
      [] response = "400" -> "InvalidParameterError"
      [] response \in {"5xx", "600"} -> "HeygenAPIError"
      [] response = "network" -> "ClientError"

\* hasattr(_ctx, "job_try"): arq hands the job its context as a dict, and a
\* dict has keys, not attributes.
HasAttrJobTry == FALSE

\* heygen_generate_video_job, lines 58-107: every HeygenAPIError, the one of
\* a 5xx response included, is answered with an error payload; Retry is
\* raised for a network error only behind hasattr(_ctx, "job_try").
heygen_generate_video_job(exception) ==
    IF exception = None THEN "url"
    ELSE IF exception \in {"AuthenticationError", "ResourceNotFoundError",
                           "InvalidParameterError", "HeygenAPIError"}
    THEN "error_payload"
    ELSE IF HasAttrJobTry /\ exception = "ClientError" THEN "Retry"
    ELSE "error_payload"

\* A caption job that gives up on a 5xx answer.
zapcap_job_without_retry(response) ==
    IF response = "ok" THEN "url" ELSE "raised"

\* zapcap_edit_video_job, lines 115-128: a 5xx HTTPStatusError raises Retry;
\* any other HTTPStatusError is swallowed and 'return download_url' raises
\* UnboundLocalError; an error that is no HTTPStatusError propagates.
zapcap_edit_video_job(response) ==
    IF response = "ok" THEN "url"
    ELSE IF response = "network" THEN "raised"
    ELSE IF 500 <= StatusCode(response) /\ StatusCode(response) <= 600
    THEN "Retry"
    ELSE "raised"

\* generate_music_job, lines 136-153. The prompt comes from OpenAI through
\* httpx and its errors are handled as the caption job's are (a swallowed
\* one leaves prompt_for_music_gen unbound). MusicGenerator calls AIML
\* through aiohttp: its errors are no httpx.HTTPStatusError and propagate.
\* 'api' is the call that ended the try, 'response' what it answered.
generate_music_job(api, response) ==
    IF api = "openai"
    THEN IF response = "network" THEN "raised"
         ELSE IF 500 <= StatusCode(response) /\ StatusCode(response) <= 600
         THEN "Retry"
         ELSE "raised"
    ELSE IF response = "ok" THEN "url" ELSE "raised"

\* Retry(defer=_ctx["job_try"] * 5)
RetryDefer(job_try) == job_try * 5

JobOutcome(name, api, response) ==
    CASE name = "heygen_generate_video_job"
           -> heygen_generate_video_job(HeygenRaises(response))
      [] name = "zapcap_edit_video_job" -> zapcap_edit_video_job(response)
      [] name = "generate_music_job" -> generate_music_job(api, response)

\* The worker starts a try of the job (job_try counts them). Retry puts the
\* job back on the queue, deferred by job_try * 5 seconds, and its result
\* is not stored; a job picked up after max_tries tries fails.
run_job(t) ==
    /\ job[t].status = "queued"
    /\ IF job[t].job_try >= max_tries
       THEN job' = [job EXCEPT ![t].status = "complete", ![t].result = "raised"]
       ELSE \E i \in DOMAIN Apis(job[t].name), response \in Responses :
              LET api == Apis(job[t].name)[i]
                  outcome == JobOutcome(job[t].name, api, response) IN
              \* every call but the job's last goes on to the next when it
              \* succeeds
              /\ (i < Len(Apis(job[t].name))) => response # "ok"
              /\ job' = [job EXCEPT
                        ![t].job_try = @ + 1,
                        ![t].response = response,
                        ![t].api = api,
                        ![t].defer = IF outcome = "Retry"
                                     THEN RetryDefer(job[t].job_try + 1)
                                     ELSE @,
                        ![t].status = IF outcome = "Retry" THEN "queued"
                                      ELSE "complete",
                        ![t].result = IF outcome = "Retry" THEN None
                                      ELSE outcome]
    /\ UNCHANGED <<session, pc, run, credits_left, handled, rejections, payVars, ledVars, svcVars>>

(***************************************************************************)
(* Pipeline-start triggers                                                 *)
(***************************************************************************)
\* The 'demo' callback: behind the guard it only checks the balance and asks
\* for an avatar (start_generation); it writes no session data.
handle_create_demo_callback ==
    /\ handled < MaxTriggers
    /\ handled' = handled + 1
    /\ rejections' = rejections +
          (IF IsGenerating(session.is_video_generating) THEN 1 ELSE 0)
    /\ UNCHANGED <<session, pc, run, job, credits_left, payVars, ledVars, svcVars>>

\* The /generate command: the same guard, then the same balance check.
handle_start_avatar_generation ==
    /\ handled < MaxTriggers
    /\ handled' = handled + 1
    /\ rejections' = rejections +
          (IF IsGenerating(session.is_video_generating) THEN 1 ELSE 0)
    /\ UNCHANGED <<session, pc, run, job, credits_left, payVars, ledVars, svcVars>>

(***************************************************************************)
(* generate_heygen_avatar: the 'subtitle_style:' callback                  *)
(***************************************************************************)
\* Lines 250-258: the entry guard.
G_Guard(t) ==
    /\ pc[t] \in Idle
    /\ handled < MaxTriggers
    /\ handled' = handled + 1
    /\ run' = [run EXCEPT ![t] = NewRun]
    /\ IF IsGenerating(session.is_video_generating)
       THEN /\ rejections' = rejections + 1
            /\ Goto(t, "rejected")
       ELSE /\ UNCHANGED rejections
            /\ Goto(t, "g_setup")
    /\ UNCHANGED <<session, job, credits_left, payVars, ledVars, svcVars>>

\* Lines 260-293: store the subtitle template, send the waiting message, read
\* the session again and build the VideoGenerationConfig from script and avatar.
G_Setup(t) ==
    /\ pc[t] = "g_setup"
    /\ session' = [session EXCEPT !.video_editing =
                      [present |-> TRUE, zapcap_video_url |-> None, music_url |-> None]]
    /\ \E sent \in BOOLEAN :
         IF sent /\ session.script /\ session.avatar.chosen
         THEN Goto(t, "g_flag") /\ UNCHANGED run
         ELSE Goto(t, "raised") /\ Raise(t)
    /\ UNCHANGED <<job, credits_left, handled, rejections, payVars, ledVars, svcVars>>

\* Lines 295-302: set the flag, then enqueue_job; a None handle raises.
G_SetFlag(t) ==
    /\ pc[t] = "g_flag"
    /\ SetFlag("True")
    /\ \E handle \in BOOLEAN :
         IF handle
         THEN /\ job' = [job EXCEPT ![t] = Enqueued("heygen_generate_video_job")]
              /\ Goto(t, "g_await")
         ELSE /\ UNCHANGED job
              /\ Goto(t, "g_except")
    /\ UNCHANGED <<run, credits_left, handled, rejections, payVars, ledVars, svcVars>>

\* Lines 303-332: job.result() returned a URL, an error payload, or raised.
G_Result(t) ==
    /\ pc[t] = "g_await"
    /\ job[t].status = "complete"
    /\ job' = [job EXCEPT ![t] = NoJob]
    /\ \E uploaded \in BOOLEAN :
         IF job[t].result = "url" /\ uploaded
         THEN /\ session' = [session EXCEPT !.avatar =
                                [chosen |-> TRUE, video_url |-> t]]
              /\ Goto(t, "e_start")
         ELSE /\ Goto(t, "g_except")
              /\ UNCHANGED session
    /\ UNCHANGED <<run, credits_left, handled, rejections, payVars, ledVars, svcVars>>

\* job.result(timeout=1200) gave up; the job is left to the worker.
G_Timeout(t) ==
    /\ pc[t] = "g_await"
    /\ job[t].status # "complete"
    /\ job' = [job EXCEPT ![t] = NoJob]
    /\ Goto(t, "g_except")
    /\ UNCHANGED <<session, run, credits_left, handled, rejections, payVars, ledVars, svcVars>>

\* An except block after which the handler goes on to the caption stage.
G_ExceptThenCaption(t) ==
    /\ pc[t] = "g_except"
    /\ SetFlag("False")
    /\ \E sent \in BOOLEAN :
         /\ run' = [run EXCEPT ![t].failed = TRUE, ![t].exc = ~sent,
                               ![t].notices = IF sent THEN @ + 1 ELSE @,
                               ![t].critical = @ \/ sent]
         /\ Goto(t, IF sent THEN "e_start" ELSE "raised")
    /\ UNCHANGED <<job, credits_left, handled, rejections, payVars, ledVars, svcVars>>

\* Lines 334-351: the except block: the flag first, then the notice, then
\* logging.critical.
G_Except(t) ==
    /\ pc[t] = "g_except"
    /\ SetFlag("False")
    /\ \E sent \in BOOLEAN :
         /\ run' = [run EXCEPT ![t].failed = TRUE, ![t].exc = ~sent,
                               ![t].notices = IF sent THEN @ + 1 ELSE @,
                               ![t].critical = @ \/ sent]
         /\ Goto(t, IF sent THEN "returned" ELSE "raised")
    /\ UNCHANGED <<job, credits_left, handled, rejections, payVars, ledVars, svcVars>>

(***************************************************************************)
(* proccess_video_editing: the caption stage                               *)
(***************************************************************************)
\* avatar.py 364-365, editing.py 28-62: the stage message, the session read
\* (both outside the try block) and enqueue_job.
E_Start(t) ==
    /\ pc[t] = "e_start"
    /\ \E sent \in BOOLEAN, handle \in BOOLEAN :
         IF ~sent \/ ~session.video_editing.present \/ session.avatar.video_url = None
         THEN /\ Goto(t, "raised") /\ Raise(t) /\ UNCHANGED job
         ELSE /\ run' = [run EXCEPT ![t].snap = session.video_editing]
              /\ IF handle
                 THEN /\ job' = [job EXCEPT ![t] = Enqueued("zapcap_edit_video_job")]
                      /\ Goto(t, "e_await")
                 ELSE /\ UNCHANGED job
                      /\ Goto(t, "e_except")
    /\ UNCHANGED <<session, credits_left, handled, rejections, payVars, ledVars, svcVars>>

\* Lines 63-91: the captioned-video URL is stored into the video_editing
\* record read at line 45.
E_Result(t) ==
    /\ pc[t] = "e_await"
    /\ job[t].status = "complete"
    /\ job' = [job EXCEPT ![t] = NoJob]
    /\ \E uploaded \in BOOLEAN :
         IF job[t].result = "url" /\ uploaded
         THEN /\ session' = [session EXCEPT !.video_editing =
                                [run[t].snap EXCEPT !.zapcap_video_url = t]]
              /\ Goto(t, "m_start")
         ELSE /\ Goto(t, "e_except")
              /\ UNCHANGED session
    /\ run' = [run EXCEPT ![t].snap = NoVideoEditing]
    /\ UNCHANGED <<credits_left, handled, rejections, payVars, ledVars, svcVars>>

\* job.result(timeout=900) gave up.
E_Timeout(t) ==
    /\ pc[t] = "e_await"
    /\ job[t].status # "complete"
    /\ job' = [job EXCEPT ![t] = NoJob]
    /\ run' = [run EXCEPT ![t].snap = NoVideoEditing]
    /\ Goto(t, "e_except")
    /\ UNCHANGED <<session, credits_left, handled, rejections, payVars, ledVars, svcVars>>

\* Where the return of the except block leads: the finally block.
\* Lines 116-127: the finally block of the caption stage starts the music stage.
E_Finally == "m_start"

\* Lines 93-115: the notice first, then the flag; then return.
E_Except(t) ==
    /\ pc[t] = "e_except"
    /\ \E sent \in BOOLEAN :
         IF sent
         THEN /\ SetFlag("False")
              /\ run' = [run EXCEPT ![t].failed = TRUE, ![t].snap = NoVideoEditing,
                                    ![t].notices = @ + 1, ![t].critical = TRUE]
         ELSE /\ UNCHANGED session
              /\ run' = [run EXCEPT ![t].failed = TRUE, ![t].exc = TRUE,
                                    ![t].snap = NoVideoEditing]
    /\ Goto(t, E_Finally)
    /\ UNCHANGED <<job, credits_left, handled, rejections, payVars, ledVars, svcVars>>

(***************************************************************************)
(* proccess_music_generation: the music stage                              *)
(***************************************************************************)
\* Lines 131-153: state_data["script"] and the stage message are outside the
\* try block.
M_Start(t) ==
    /\ pc[t] = "m_start"
    /\ \E sent \in BOOLEAN, handle \in BOOLEAN :
         IF ~sent \/ ~session.script
         THEN /\ Goto(t, "raised") /\ Raise(t) /\ UNCHANGED job
         ELSE /\ run' = [run EXCEPT ![t].snap = session.video_editing]
              /\ IF handle
                 THEN /\ job' = [job EXCEPT ![t] = Enqueued("generate_music_job")]
                      /\ Goto(t, "m_await")
                 ELSE /\ UNCHANGED job
                      /\ Goto(t, "m_except")
    /\ UNCHANGED <<session, credits_left, handled, rejections, payVars, ledVars, svcVars>>

\* Lines 155-167; state_data["video_editing"] is read inside the try block.
M_Result(t) ==
    /\ pc[t] = "m_await"
    /\ job[t].status = "complete"
    /\ job' = [job EXCEPT ![t] = NoJob]
    /\ \E uploaded \in BOOLEAN :
         IF job[t].result = "url" /\ uploaded /\ run[t].snap.present
         THEN /\ session' = [session EXCEPT !.video_editing =
                                [run[t].snap EXCEPT !.music_url = t]]
              /\ Goto(t, "x_start")
         ELSE /\ Goto(t, "m_except")
              /\ UNCHANGED session
    /\ run' = [run EXCEPT ![t].snap = NoVideoEditing]
    /\ UNCHANGED <<credits_left, handled, rejections, payVars, ledVars, svcVars>>

\* job.result(timeout=600) gave up.
M_Timeout(t) ==
    /\ pc[t] = "m_await"
    /\ job[t].status # "complete"
    /\ job' = [job EXCEPT ![t] = NoJob]
    /\ run' = [run EXCEPT ![t].snap = NoVideoEditing]
    /\ Goto(t, "m_except")
    /\ UNCHANGED <<session, credits_left, handled, rejections, payVars, ledVars, svcVars>>

\* Lines 192-203: the finally block of the music stage starts the merge stage.
M_Finally == "x_start"

\* Lines 169-191: the flag first, then the notice; then return.
M_Except(t) ==
    /\ pc[t] = "m_except"
    /\ SetFlag("False")
    /\ \E sent \in BOOLEAN :
         run' = [run EXCEPT ![t].failed = TRUE, ![t].exc = @ \/ ~sent,
                            ![t].snap = NoVideoEditing,
                            ![t].notices = IF sent THEN @ + 1 ELSE @,
                            ![t].critical = @ \/ sent]
    /\ Goto(t, M_Finally)
    /\ UNCHANGED <<job, credits_left, handled, rejections, payVars, ledVars, svcVars>>

(***************************************************************************)
(* proccess_music_merging: merge, delivery and the debit                   *)
(***************************************************************************)
\* The handler is over: an exception raised by an except block of an earlier
\* stage goes on propagating once the finally block has run the later stages.
Ended(t) == IF run[t].exc THEN "raised" ELSE "returned"

\* Lines 208-227: both artifact URLs are read outside the try block.
X_Start(t) ==
    /\ pc[t] = "x_start"
    /\ \E sent \in BOOLEAN :
         IF \/ ~sent
            \/ ~session.video_editing.present
            \/ session.video_editing.zapcap_video_url = None
            \/ session.video_editing.music_url = None
         THEN Goto(t, "raised") /\ Raise(t)
         ELSE Goto(t, "x_merge") /\ UNCHANGED run
    /\ UNCHANGED <<session, job, credits_left, handled, rejections, payVars, ledVars, svcVars>>

\* A merge stage that goes to the debit without sending the final video.
X_MergeThenDeduct(t) ==
    /\ pc[t] = "x_merge"
    /\ \E merged \in BOOLEAN : Goto(t, IF merged THEN "x_deduct" ELSE "x_except")
    /\ UNCHANGED <<session, run, job, credits_left, handled, rejections, payVars, ledVars, svcVars>>

\* Lines 229-234: merge_video_and_music returns the merged URL or raises.
X_Merge(t) ==
    /\ pc[t] = "x_merge"
    /\ \E merged \in BOOLEAN : Goto(t, IF merged THEN "x_deliver" ELSE "x_except")
    /\ UNCHANGED <<session, run, job, credits_left, handled, rejections, payVars, ledVars, svcVars>>

\* Lines 253-261: send_document, then the flag; and 277-280 when
\* send_document raises: the inner except block stores the flag and re-raises.
X_Deliver(t) ==
    /\ pc[t] = "x_deliver"
    /\ SetFlag("False")
    /\ \E sent \in BOOLEAN :
         /\ run' = [run EXCEPT ![t].delivered = sent]
         /\ Goto(t, IF sent THEN "x_deduct" ELSE "x_except")
    /\ UNCHANGED <<job, credits_left, handled, rejections, payVars, ledVars, svcVars>>

\* An UPDATE without the credits_left >= credits condition.
DeductAppliesAlways(balance, credits) == TRUE

\* deduct_credits of the ledger: UPDATE ... WHERE credits_left >= credits.
\* Whether a row matched, and the balance afterwards.
DeductApplies(balance, credits) == balance >= credits
DeductCredits(balance, credits) ==
    IF DeductApplies(balance, credits) THEN balance - credits ELSE balance

\* Lines 263-280: POST credits/deduct?credits=1; anything but a 200 answer
\* (402, 404, 500, no answer in 5 s) raises into the inner except block,
\* which stores the flag and re-raises.
X_Deduct(t) ==
    /\ pc[t] = "x_deduct"
    /\ run' = [run EXCEPT ![t].deducts = @ + 1]
    /\ \E answered \in BOOLEAN :
         IF answered /\ DeductApplies(credits_left, 1)
         THEN /\ credits_left' = DeductCredits(credits_left, 1)
              /\ Goto(t, "x_reset")
              /\ UNCHANGED session
         ELSE /\ UNCHANGED credits_left
              /\ SetFlag("False")
              /\ Goto(t, "x_except")
    /\ UNCHANGED <<job, handled, rejections, payVars, ledVars, svcVars>>

\* Lines 282-288: state.clear() and the preserved fields.
X_Reset(t) ==
    /\ pc[t] = "x_reset"
    /\ session' = Preserved(session, session.is_video_generating)
    /\ Goto(t, Ended(t))
    /\ UNCHANGED <<run, job, credits_left, handled, rejections, payVars, ledVars, svcVars>>

\* An outer except block that sends the debit again.
X_ExceptRetry(t) ==
    /\ pc[t] = "x_except"
    /\ SetFlag("False")
    /\ Goto(t, IF run[t].delivered THEN "x_deduct" ELSE Ended(t))
    /\ UNCHANGED <<run, job, credits_left, handled, rejections, payVars, ledVars, svcVars>>

\* Lines 290-320: the outer except block: the flag, the notice,
\* logging.critical, then state.clear() and the preserved fields.
X_Except(t) ==
    /\ pc[t] = "x_except"
    /\ \E sent \in BOOLEAN :
         IF sent
         THEN /\ session' = Preserved(session, "False")
              /\ run' = [run EXCEPT ![t].failed = @ \/ ~run[t].delivered,
                                    ![t].notices = @ + 1, ![t].critical = TRUE]
              /\ Goto(t, Ended(t))
         ELSE /\ SetFlag("False")
              /\ run' = [run EXCEPT ![t].failed = @ \/ ~run[t].delivered,
                                    ![t].exc = TRUE]
              /\ Goto(t, "raised")
    /\ UNCHANGED <<job, credits_left, handled, rejections, payVars, ledVars, svcVars>>

(***************************************************************************)
(* Conversation handlers that write the fields the pipeline reads.  Their  *)
(* callbacks carry no state filter, and the one message handler among them *)
(* runs in a state (user_script_input) that the unfiltered callbacks       *)
(* 'script_method:user' and 'edit_user_script' set at any time.            *)
(***************************************************************************)
\* The 'avatar:' callback stores a fresh avatar record.
avatar_chosen ==
    /\ session' = [session EXCEPT !.avatar = [chosen |-> TRUE, video_url |-> None]]
    /\ UNCHANGED <<pc, run, job, credits_left, handled, rejections, payVars, ledVars, svcVars>>

\* The 'edit_user_script' callback: when edit_caption raises, the except
\* block stores is_video_generating=False.
edit_user_script ==
    /\ \E edited \in BOOLEAN :
         IF edited THEN UNCHANGED session ELSE SetFlag("False")
    /\ UNCHANGED <<pc, run, job, credits_left, handled, rejections, payVars, ledVars, svcVars>>

\* A text message in state user_script_input stores the script.
process_user_script ==
    /\ session' = [session EXCEPT !.script = TRUE]
    /\ UNCHANGED <<pc, run, job, credits_left, handled, rejections, payVars, ledVars, svcVars>>

(***************************************************************************)
(* The ledger service: one order of the user                               *)
(***************************************************************************)
\* PackageType: the packages an order can buy, as the column stores them.
Packages == {"10", "30", "50", "100"}

\* int(package_type): the credit count of a package.
PackageCredits(package_type) ==
    CASE package_type = "10" -> 10
      [] package_type = "30" -> 30
      [] package_type = "50" -> 50
      [] package_type = "100" -> 100

\* TransactionStatus: the values of the status column.
TransactionStatus == {"pending", "processing", "completed", "failed", "canceled"}

NoTx == [status |-> None, package_type |-> None]

\* config.py: SUBSCRIPTION_DURATION, in days.
SUBSCRIPTION_DURATION == 28

\* A nullable DateTime column holds no value (NULL, None) or one.
Null == {}
At(time) == {time}

\* A validator that never sets credits_expire_date.
set_purchase_time_only(row, purchase_time) ==
    [row EXCEPT !.purchase_time = purchase_time]

\* User.set_credits_expire_date, the validator of purchase_time: a value
\* that is not None sets credits_expire_date to it plus the subscription
\* duration; None leaves credits_expire_date as it is.
set_credits_expire_date(row, purchase_time) ==
    IF purchase_time # Null
    THEN [row EXCEPT !.purchase_time = purchase_time,
                     !.credits_expire_date =
                        {p + SUBSCRIPTION_DURATION : p \in purchase_time}]
    ELSE [row EXCEPT !.purchase_time = purchase_time]

\* An add_credits that never touches purchase_time.
KeepPurchaseTime(row, update_purchase_time, current_time) == row

\* UserRepository.add_credits, lines 241-244:
\* if update_purchase_time: user.purchase_time = get_timezone_naive_now()
UpdatePurchaseTime(row, update_purchase_time, current_time) ==
    IF update_purchase_time
    THEN set_credits_expire_date(row, At(current_time))
    ELSE row

\* models.py: get_timezone_naive_now() as the service runs on.
Tick ==
    /\ now < MaxTime
    /\ now' = now + 1
    /\ UNCHANGED <<urow, req, requests, expected, trail, credits_left, payVars,
                   pipeVars, svcVars>>

\* UserService.add_credits as the webhook and the endpoint call it, with
\* update_purchase_time left at True: credits_total and credits_left both
\* grow, is_paid is set and the purchase is stamped.
AddCredits(who, credits) ==
    /\ credits_left' = credits_left + credits
    /\ credits_total' = credits_total + credits
    /\ urow' = UpdatePurchaseTime([urow EXCEPT !.is_paid = TRUE], TRUE, now)
    /\ grants' = [grants EXCEPT ![who] = @ + 1]

\* TransactionRepository.update_transaction: every field given is stored as
\* it comes; the status the row has is not looked at.
UpdateStatus(status) == tx' = [tx EXCEPT !.status = status]

\* POST /api/payments (create_payment_api), called by confirm_payment of the
\* bot, which then starts start_payment_checker as a task. When init_payment
\* raises, the row is marked failed, the answer is 500 and no poller starts.
create_payment_api ==
    /\ tx.status = None
    /\ \E package \in Packages, initialised \in BOOLEAN :
         IF initialised
         THEN /\ tx' = [status |-> "pending", package_type |-> package]
              /\ poller' = "loop"
         ELSE /\ tx' = [status |-> "failed", package_type |-> package]
              /\ UNCHANGED poller
    /\ UNCHANGED <<gateway, credits_total, checkjob, polls, pg_results, grants,
                   notified, credits_left, check_reply, pipeVars, ledVars, svcVars>>

\* The user pays on the gateway's page.
GatewayPaid ==
    /\ tx.status # None
    /\ gateway = "unpaid"
    /\ gateway' = "paid"
    /\ UNCHANGED <<tx, credits_total, poller, checkjob, polls, pg_results, grants,
                   notified, credits_left, check_reply, pipeVars, ledVars, svcVars>>

NoReply == [order_status |-> None, amount_ok |-> FALSE, pg_status |-> None,
            stored |-> None]

\* A /check that accepts every order it finds.
CheckOkAnyStatus(status, amount_matches) == status # None /\ amount_matches

\* check_payment, lines 237-260: the order is found, its status is PENDING
\* or PROCESSING and the amounts differ by no more than 0.01.
CheckOk(status, amount_matches) ==
    status \in {"pending", "processing"} /\ amount_matches

\* POST /check (check_payment): ok only for a pending or processing order
\* with the right amount; a pending one becomes processing. tx.status None
\* is an order_id that has no row.
check_payment ==
    /\ \E amount_matches \in BOOLEAN :
         LET ok == CheckOk(tx.status, amount_matches)
             status == IF ok /\ tx.status = "pending"
                       THEN "processing" ELSE tx.status IN
         /\ IF status # tx.status THEN UpdateStatus(status) ELSE UNCHANGED tx
         /\ check_reply' = [order_status |-> tx.status,
                            amount_ok |-> amount_matches,
                            pg_status |-> IF ok THEN "ok" ELSE "rejected",
                            stored |-> status]
    /\ UNCHANGED <<gateway, credits_total, poller, checkjob, polls, pg_results,
                   grants, notified, credits_left, pipeVars, ledVars, svcVars>>

\* new_status = COMPLETED if pg_result == "1" else FAILED
NewStatus(pg_result) == IF pg_result = "1" THEN "completed" ELSE "failed"

\* POST /result (payment_result): an order id that is missing or matches no
\* row is answered 'rejected' and nothing is written; otherwise the status
\* is overwritten with new_status and, when that is completed,
\* add_credits(int(package_type)) follows.
payment_result ==
    /\ Len(pg_results) < MaxResults
    /\ IF tx.status = None
       THEN UNCHANGED <<tx, pg_results, credits_left, credits_total, grants, urow>>
       ELSE \E pg_result \in {"0", "1"} :
         /\ pg_results' = Append(pg_results, pg_result)
         /\ UpdateStatus(NewStatus(pg_result))
         /\ IF NewStatus(pg_result) = "completed"
            THEN AddCredits("webhook", PackageCredits(tx.package_type))
            ELSE UNCHANGED <<credits_left, credits_total, grants, urow>>
    /\ UNCHANGED <<gateway, poller, checkjob, polls, notified, check_reply,
                   pipeVars, ledRest, svcVars>>

\* A status endpoint that marks an order the gateway has not confirmed as
\* failed.
StatusAfterPollFails(status, gw) ==
    IF status \in {"completed", "failed"} THEN status
    ELSE IF gw = "paid" THEN "completed" ELSE "failed"

\* POST /api/payments/status (check_payment_status_api): the status it
\* stores and answers. A completed or failed row is answered as it is; any
\* other row asks the gateway and becomes completed or processing.
StatusAfterPoll(status, gw) ==
    IF status \in {"completed", "failed"} THEN status
    ELSE IF gw = "paid" THEN "completed" ELSE "processing"

(***************************************************************************)
(* The bot's poller and its job                                            *)
(***************************************************************************)
\* start_payment_checker, lines 51-61: while the 15 minutes are not over,
\* enqueue check_payment_status_job and await its result. The handle is not
\* looked at: job.result() on None raises AttributeError out of the task.
P_Enqueue ==
    /\ poller = "loop"
    /\ polls < MaxPolls
    /\ polls' = polls + 1
    /\ \E handle \in BOOLEAN :
         IF handle
         THEN poller' = "await" /\ checkjob' = "status"
         ELSE poller' = "crashed" /\ UNCHANGED checkjob
    /\ UNCHANGED <<tx, gateway, credits_total, pg_results, grants, notified,
                   credits_left, check_reply, pipeVars, ledVars, svcVars>>

\* Lines 73-81: the window is over: the 'payment not completed' notice.
P_Expire ==
    /\ poller = "loop"
    /\ poller' = "expired"
    /\ notified' = [notified EXCEPT !.expired = @ + 1]
    /\ UNCHANGED <<tx, gateway, credits_total, checkjob, polls, pg_results, grants,
                   credits_left, check_reply, pipeVars, ledVars, svcVars>>

\* Lines 61-71: a true result ends the loop, a false one sleeps and goes on.
P_Result ==
    /\ poller = "await"
    /\ checkjob \in {"True", "False"}
    /\ poller' = IF checkjob = "True" THEN "stopped" ELSE "loop"
    /\ checkjob' = None
    /\ UNCHANGED <<tx, gateway, credits_total, polls, pg_results, grants, notified,
                   credits_left, check_reply, pipeVars, ledVars, svcVars>>

\* check_payment_status_job, lines 162-172: ask the service for the status
\* (the service stores what it answers); no answer or a 500 returns False.
J_Status ==
    /\ checkjob = "status"
    /\ \E answered \in BOOLEAN :
         IF answered
         THEN /\ UpdateStatus(StatusAfterPoll(tx.status, gateway))
              /\ checkjob' = IF StatusAfterPoll(tx.status, gateway) = "completed"
                             THEN "add" ELSE "False"
         ELSE /\ UNCHANGED tx
              /\ checkjob' = "False"
    /\ UNCHANGED <<gateway, credits_total, poller, polls, pg_results, grants,
                   notified, credits_left, check_reply, pipeVars, ledVars, svcVars>>

\* Lines 174-181: POST credits/add with the package size.
J_AddCredits ==
    /\ checkjob = "add"
    /\ \E answered \in BOOLEAN :
         IF answered
         THEN /\ AddCredits("job", PackageCredits(tx.package_type))
              /\ checkjob' = "notify"
         ELSE /\ UNCHANGED <<credits_left, credits_total, grants, urow>>
              /\ checkjob' = "False"
    /\ UNCHANGED <<tx, gateway, poller, polls, pg_results, notified, check_reply,
                   pipeVars, ledRest, svcVars>>

\* Lines 183-199: the success message; when send_message raises, the
\* except block returns False.
J_Notify ==
    /\ checkjob = "notify"
    /\ \E sent \in BOOLEAN :
         IF sent
         THEN /\ notified' = [notified EXCEPT !.success = @ + 1]
              /\ checkjob' = "True"
         ELSE /\ UNCHANGED notified
              /\ checkjob' = "False"
    /\ UNCHANGED <<tx, gateway, credits_total, poller, polls, pg_results, grants,
                   credits_left, check_reply, pipeVars, ledVars, svcVars>>

(***************************************************************************)
(* The ledger service: the credits of the user's row                       *)
(***************************************************************************)
\* Connections that serve credits requests at the same time.
Reqs == {"r1", "r2"}

\* The credits parameter of a request; 0 is what the services reject.
Amounts == 0..MaxAmount

NoRead == [left |-> 0, total |-> 0]
NoReq == [n |-> 0, op |-> None, pc |-> "idle", credits |-> 0, read |-> NoRead,
          update_purchase_time |-> FALSE, error |-> None, status |-> 0]

\* UserRepository.get_user: User.is_deleted == False.
GetUser == urow.status = "active"

\* exceptions.py: every error of the services derives from AppException,
\* which derives from Exception: none of them is a ValueError.
IsValueError(error) == FALSE

\* The words of the InsufficientCreditsError message after the user id, and
\* the words the endpoint looks for in it.
InsufficientMessage == <<"does", "not", "have", "enough", "credits">>
NotEnoughCredits == <<"not", "enough", "credits">>

\* "needle in message", on words.
Mentions(message, needle) ==
    \E i \in 1..Len(message) :
       /\ i + Len(needle) - 1 <= Len(message)
       /\ \A k \in 1..Len(needle) : message[i + k - 1] = needle[k]

ErrorMessage(error) ==
    IF error = "InsufficientCreditsError" THEN InsufficientMessage
    ELSE <<"not", "found">>

\* deduct_user_credits_api: the HTTP status of the answer.
DeductStatus(error) ==
    IF error = None THEN 200
    ELSE IF IsValueError(error)
         THEN IF Mentions(ErrorMessage(error), NotEnoughCredits) THEN 402 ELSE 404
         ELSE 500

\* add_user_credits_api: the HTTP status of the answer.
AddStatus(error) ==
    IF error = None THEN 200
    ELSE IF IsValueError(error) THEN 400 ELSE 500

\* A service that reports every refused deduction as a missing user.
DeductErrorNotFound(exists) == "ResourceNotFoundError"

\* UserService.deduct_credits, after the repository returned None.
DeductError(exists) ==
    IF exists THEN "InsufficientCreditsError" ELSE "ResourceNotFoundError"

\* An add_credits that leaves is_paid as it was.
RowAfterAddUnpaid(read, credits, paid) ==
    [left |-> read.left + credits, total |-> read.total + credits, is_paid |-> paid]

\* UserRepository.add_credits: the columns the ORM flushes, computed from
\* the object it loaded.
RowAfterAdd(read, credits, paid) ==
    [left |-> read.left + credits, total |-> read.total + credits, is_paid |-> TRUE]

Answer(r, error, status) ==
    req' = [req EXCEPT ![r].pc = "done", ![r].error = error, ![r].status = status,
                       ![r].update_purchase_time = FALSE]

Keep2(writes) == IF Len(writes) > 2 THEN Tail(writes) ELSE writes
Committed(op, credits, before) ==
    trail' = Keep2(Append(trail, [op |-> op, credits |-> credits, before |-> before]))

\* POST /api/users: UserService.create_user. An active user is refused; a
\* soft-deleted one is deleted for good and created afresh.
create_user ==
    /\ IF GetUser
       THEN UNCHANGED <<urow, credits_left, credits_total, expected, trail>>
       ELSE /\ urow' = [status |-> "active", is_paid |-> FALSE,
                        purchase_time |-> Null, credits_expire_date |-> Null]
            /\ credits_left' = 0
            /\ credits_total' = 0
            /\ expected' = 0
            /\ Committed("create", 0, credits_left)
    /\ UNCHANGED <<req, requests, payRest, pipeVars, now, svcVars>>

\* PATCH /api/users/{id}: UserRepository.update_user. UserUpdate has one
\* field, is_paid; a body without it changes nothing, and so does a user
\* that does not exist (404).
update_user ==
    /\ \E is_paid \in {None, "true", "false"} :
         IF GetUser /\ is_paid # None
         THEN urow' = [urow EXCEPT !.is_paid = (is_paid = "true")]
         ELSE UNCHANGED urow
    /\ UNCHANGED <<credits_left, credits_total, expected, trail, req, requests,
                   payRest, pipeVars, now, svcVars>>

\* DELETE /api/users/{id}: UserRepository.delete_user, a soft delete.
delete_user ==
    /\ GetUser
    /\ urow' = [urow EXCEPT !.status = "deleted"]
    /\ Committed("delete", 0, credits_left)
    /\ UNCHANGED <<credits_left, credits_total, expected, req, requests, payRest,
                   pipeVars, now, svcVars>>

\* add_credits, first half: the validation of the service and get_user of
\* the repository, which loads the row into the session.
L_AddRead(r) ==
    /\ req[r].pc \in {"idle", "done"}
    /\ requests < MaxRequests
    /\ requests' = requests + 1
    /\ \E credits \in Amounts, update_purchase_time \in BOOLEAN :
         LET q == [NoReq EXCEPT !.n = requests + 1, !.op = "add",
                                !.credits = credits] IN
         IF credits <= 0
         THEN req' = [req EXCEPT ![r] =
                        [q EXCEPT !.pc = "done", !.error = "CustomValidationError",
                                  !.status = AddStatus("CustomValidationError")]]
         ELSE IF ~GetUser
         THEN req' = [req EXCEPT ![r] =
                        [q EXCEPT !.pc = "done", !.error = "ResourceNotFoundError",
                                  !.status = AddStatus("ResourceNotFoundError")]]
         ELSE req' = [req EXCEPT ![r] =
                        [q EXCEPT !.pc = "a_write",
                                  !.update_purchase_time = update_purchase_time,
                                  !.read = [left |-> credits_left,
                                            total |-> credits_total]]]
    /\ UNCHANGED <<urow, credits_left, credits_total, expected, trail, payRest,
                   pipeVars, now, svcVars>>

\* add_credits, second half: commit flushes the values computed from the
\* loaded object, as UPDATE users SET ... WHERE telegram_id = :id.
L_AddWrite(r) ==
    /\ req[r].pc = "a_write"
    /\ LET row == RowAfterAdd(req[r].read, req[r].credits, urow.is_paid) IN
         /\ credits_left' = row.left
         /\ credits_total' = row.total
         /\ urow' = UpdatePurchaseTime([urow EXCEPT !.is_paid = row.is_paid],
                                       req[r].update_purchase_time, now)
    /\ expected' = expected + req[r].credits
    /\ Committed("add", req[r].credits, req[r].read.left)
    /\ Answer(r, None, AddStatus(None))
    /\ UNCHANGED <<requests, payRest, pipeVars, now, svcVars>>

\* deduct_credits: the validation of the service and the single UPDATE of
\* the repository. When no row matched, the service goes on to get_user.
L_Deduct(r) ==
    /\ req[r].pc \in {"idle", "done"}
    /\ requests < MaxRequests
    /\ requests' = requests + 1
    /\ \E credits \in Amounts :
         LET q == [NoReq EXCEPT !.n = requests + 1, !.op = "deduct",
                                !.credits = credits] IN
         IF credits <= 0
         THEN /\ req' = [req EXCEPT ![r] =
                           [q EXCEPT !.pc = "done", !.error = "CustomValidationError",
                                     !.status = DeductStatus("CustomValidationError")]]
              /\ UNCHANGED <<credits_left, expected, trail>>
         ELSE IF GetUser /\ DeductApplies(credits_left, credits)
         THEN /\ credits_left' = DeductCredits(credits_left, credits)
              /\ expected' = expected - credits
              /\ Committed("deduct", credits, credits_left)
              /\ req' = [req EXCEPT ![r] =
                           [q EXCEPT !.pc = "done", !.status = DeductStatus(None)]]
         ELSE /\ req' = [req EXCEPT ![r] = [q EXCEPT !.pc = "d_check"]]
              /\ UNCHANGED <<credits_left, expected, trail>>
    /\ UNCHANGED <<urow, credits_total, payRest, pipeVars, now, svcVars>>

\* UserService.deduct_credits, lines 246-254: which of the two errors.
L_DeductCheck(r) ==
    /\ req[r].pc = "d_check"
    /\ Answer(r, DeductError(GetUser), DeductStatus(DeductError(GetUser)))
    /\ UNCHANGED <<urow, credits_left, credits_total, requests, expected, trail,
                   payRest, pipeVars, now, svcVars>>

(***************************************************************************)
(* The remote service adapters: polling                                    *)
(***************************************************************************)
\* HeygenProcessor.__init__: seconds between two status checks.
polling_interval == 60

\* The 'status' of a video_status.get answer: the five values the adapter
\* names, another value ("draft"), or no 'status' at all.
HeygenStatuses ==
    {"completed", "waiting", "processing", "pending", "failed", "draft", None}

\* HeygenProcessor._check_video_status, lines 213-256: what it returns
\* ("url", or None while the video is not ready) or the error it raises.
check_video_status(status, video_url) ==
    IF status = "completed"
    THEN IF video_url THEN [returns |-> "url", raises |-> None]
         ELSE [returns |-> None, raises |-> "url_not_found"]
    ELSE IF status \in {"waiting", "processing", "pending"}
    THEN [returns |-> None, raises |-> None]
    ELSE IF status = "failed"
    THEN [returns |-> None, raises |-> "provider_error"]
    ELSE [returns |-> None, raises |-> "unexpected_status"]

NoPolling == [pc |-> "poll", status |-> None, requests |-> 0, slept |-> 0,
              result |-> None, error |-> None]

\* HeygenProcessor.generate_video, lines 289-296: one turn of 'while True'.
\* _make_request raises when the request fails.
generate_video ==
    /\ heygen.pc = "poll"
    /\ heygen.requests < MaxPolls
    /\ \E answered \in BOOLEAN, status \in HeygenStatuses, video_url \in BOOLEAN :
         LET check == check_video_status(status, video_url) IN
         IF ~answered
         THEN heygen' = [heygen EXCEPT !.requests = @ + 1, !.pc = "raised",
                                       !.error = "request_failed"]
         ELSE IF check.raises # None
         THEN heygen' = [heygen EXCEPT !.requests = @ + 1, !.status = status,
                                       !.pc = "raised", !.error = check.raises]
         ELSE IF check.returns = "url"
         THEN heygen' = [heygen EXCEPT !.requests = @ + 1, !.status = status,
                                       !.pc = "returned", !.result = "url"]
         ELSE heygen' = [heygen EXCEPT !.requests = @ + 1, !.status = status,
                                       !.slept = @ + polling_interval]
    /\ UNCHANGED <<zapcap, merge, history, scripts, pipeVars, credits_left,
                   payVars, ledVars>>

\* ZapcapProcessor.check_task_status: max_attempts and delay.
max_attempts == 30
delay == 60

\* The 'status' of a task answer: the three values the adapter names,
\* another value, or no 'status' ("").
ZapcapStatuses ==
    {"completed", "transcriptionCompleted", "failed", "processing", ""}

\* A polling loop without the attempt cap.
PollingExhaustedNever(attempt) == FALSE

\* 'for attempt in range(max_attempts)' is over after this request.
PollingExhausted(attempt) == attempt >= max_attempts

\* ZapcapProcessor.check_task_status, lines 206-232: one turn of the loop,
\* with the raise that follows the last turn. raise_for_status and
\* approve_transcript raise when their request fails.
check_task_status ==
    /\ zapcap.pc = "poll"
    /\ \E answered \in BOOLEAN, current_status \in ZapcapStatuses,
          download_url \in BOOLEAN, approved \in BOOLEAN :
         LET attempt == zapcap.requests + 1 IN
         IF ~answered
         THEN zapcap' = [zapcap EXCEPT !.requests = attempt, !.pc = "raised",
                                       !.error = "request_failed"]
         ELSE IF current_status = "completed"
         THEN IF download_url
              THEN zapcap' = [zapcap EXCEPT !.requests = attempt,
                                !.status = current_status,
                                !.pc = "returned", !.result = "url"]
              ELSE zapcap' = [zapcap EXCEPT !.requests = attempt,
                                !.status = current_status,
                                !.pc = "raised", !.error = "url_not_found"]
         ELSE IF current_status = "transcriptionCompleted" /\ ~approved
         THEN zapcap' = [zapcap EXCEPT !.requests = attempt,
                           !.status = current_status,
                           !.pc = "raised", !.error = "request_failed"]
         ELSE IF current_status = "failed"
         THEN zapcap' = [zapcap EXCEPT !.requests = attempt,
                           !.status = current_status,
                           !.pc = "raised", !.error = "task_failed"]
         ELSE IF PollingExhausted(attempt)
         THEN zapcap' = [zapcap EXCEPT !.requests = attempt,
                           !.status = current_status,
                           !.slept = @ + delay,
                           !.pc = "raised", !.error = "polling_exhausted"]
         ELSE zapcap' = [zapcap EXCEPT !.requests = attempt,
                           !.status = current_status,
                           !.slept = @ + delay]
    /\ UNCHANGED <<heygen, merge, history, scripts, pipeVars, credits_left,
                   payVars, ledVars>>

(***************************************************************************)
(* merge_video_and_music and its temporary files                           *)
(***************************************************************************)
TempFiles == {"tmp_video", "tmp_audio", "tmp_output"}

NoMerge == [pc |-> "download", files |-> {}, result |-> None]

\* Lines 13-21: both downloads; raise_for_status raises.
merge_download ==
    /\ merge.pc = "download"
    /\ \E downloaded \in BOOLEAN :
         merge' = [merge EXCEPT !.pc = IF downloaded THEN "tempfiles"
                                       ELSE "raised"]
    /\ UNCHANGED <<heygen, zapcap, history, scripts, pipeVars, credits_left,
                   payVars, ledVars>>

\* Lines 32-45: three NamedTemporaryFile(delete=False), and the downloads
\* written to two of them.
merge_tempfiles ==
    /\ merge.pc = "tempfiles"
    /\ merge' = [merge EXCEPT !.files = TempFiles, !.pc = "ffprobe"]
    /\ UNCHANGED <<heygen, zapcap, history, scripts, pipeVars, credits_left,
                   payVars, ledVars>>

\* Line 55: subprocess.check_output raises CalledProcessError; the 'with'
\* block it leaves closes the files and deletes none (delete=False).
merge_ffprobe ==
    /\ merge.pc = "ffprobe"
    /\ \E probed \in BOOLEAN :
         merge' = [merge EXCEPT !.pc = IF probed THEN "ffmpeg" ELSE "raised"]
    /\ UNCHANGED <<heygen, zapcap, history, scripts, pipeVars, credits_left,
                   payVars, ledVars>>

\* Lines 82-86: subprocess.run(check=True) raises CalledProcessError.
merge_ffmpeg ==
    /\ merge.pc = "ffmpeg"
    /\ \E encoded \in BOOLEAN :
         merge' = [merge EXCEPT !.pc = IF encoded THEN "unlink" ELSE "raised"]
    /\ UNCHANGED <<heygen, zapcap, history, scripts, pipeVars, credits_left,
                   payVars, ledVars>>

\* Lines 89-91, after the 'with' block.
merge_unlink ==
    /\ merge.pc = "unlink"
    /\ merge' = [merge EXCEPT !.files = {}, !.pc = "upload"]
    /\ UNCHANGED <<heygen, zapcap, history, scripts, pipeVars, credits_left,
                   payVars, ledVars>>

\* Lines 94-103.
merge_upload ==
    /\ merge.pc = "upload"
    /\ \E uploaded \in BOOLEAN :
         merge' = [merge EXCEPT !.pc = IF uploaded THEN "returned" ELSE "raised",
                                !.result = IF uploaded THEN "url" ELSE None]
    /\ UNCHANGED <<heygen, zapcap, history, scripts, pipeVars, credits_left,
                   payVars, ledVars>>

NextPoll ==
    \/ generate_video
    \/ check_task_status
    \/ merge_download
    \/ merge_tempfiles
    \/ merge_ffprobe
    \/ merge_ffmpeg
    \/ merge_unlink
    \/ merge_upload

(***************************************************************************)
(* VideoScriptGenerator: the script history in Redis                       *)
(***************************************************************************)
Users == {"A", "B"}

\* A script is modelled by the set of users whose inputs (concept, feedback)
\* it was derived from; the empty set stands for None.
NoHistory == [scenario |-> {}, feedback |-> {}]

NoCall == [pc |-> "idle", messages |-> {}, returned |-> {},
           is_script_edited |-> FALSE, raised |-> FALSE]

\* bot/handlers/script.py, edit_script: the button under a delivered script.
edit_script(u) ==
    /\ scripts[u].pc = "idle"
    /\ scripts[u].returned # {}
    /\ scripts' = [scripts EXCEPT ![u].is_script_edited = TRUE]
    /\ UNCHANGED <<history, heygen, zapcap, merge, pipeVars, credits_left,
                   payVars, ledVars>>

\* bot/handlers/script.py, choose_subtitles_style ('confirm_script').
choose_subtitles_style(u) ==
    /\ scripts[u].pc = "idle"
    /\ scripts[u].returned # {}
    /\ scripts' = [scripts EXCEPT ![u].is_script_edited = FALSE]
    /\ UNCHANGED <<history, heygen, zapcap, merge, pipeVars, credits_left,
                   payVars, ledVars>>

\* load_history: HISTORY_KEY is one key for every user.
load_history(u) == history

\* generate_script, lines 95-103: reset_history, then the job is enqueued
\* with the user's concept.
generate_script(u) ==
    /\ scripts[u].pc = "idle"
    /\ ~scripts[u].is_script_edited
    /\ history' = NoHistory
    /\ scripts' = [scripts EXCEPT ![u].pc = "generate", ![u].messages = {u},
                                  ![u].raised = FALSE]
    /\ UNCHANGED <<heygen, zapcap, merge, pipeVars, credits_left,
                   payVars, ledVars>>

\* Lines 103-108: the job's result is stored as the scenario and returned;
\* job.result raises when the job fails or the wait times out.
generate_script_result(u) ==
    /\ scripts[u].pc = "generate"
    /\ \E answered \in BOOLEAN :
         IF answered
         THEN /\ history' = [load_history(u) EXCEPT
                               !.scenario = scripts[u].messages]
              /\ scripts' = [scripts EXCEPT ![u].pc = "idle",
                                            ![u].messages = {},
                                            ![u].returned = scripts[u].messages]
         ELSE /\ scripts' = [scripts EXCEPT ![u].pc = "idle",
                                            ![u].messages = {},
                                            ![u].raised = TRUE]
              /\ UNCHANGED history
    /\ UNCHANGED <<heygen, zapcap, merge, pipeVars, credits_left,
                   payVars, ledVars>>

\* refine_script, lines 111-135: the stored scenario goes into the prompt
\* with the user's feedback; without a scenario it raises ValueError.
refine_script(u) ==
    /\ scripts[u].pc = "idle"
    /\ scripts[u].is_script_edited
    /\ IF load_history(u).scenario = {}
       THEN /\ scripts' = [scripts EXCEPT ![u].raised = TRUE]
            /\ UNCHANGED history
       ELSE /\ scripts' = [scripts EXCEPT
                             ![u].pc = "refine",
                             ![u].messages = load_history(u).scenario \cup {u},
                             ![u].raised = FALSE]
            /\ history' = [load_history(u) EXCEPT !.feedback = {u}]
    /\ UNCHANGED <<heygen, zapcap, merge, pipeVars, credits_left,
                   payVars, ledVars>>

\* Lines 135-140.
refine_script_result(u) ==
    /\ scripts[u].pc = "refine"
    /\ \E answered \in BOOLEAN :
         IF answered
         THEN /\ history' = [load_history(u) EXCEPT
                               !.scenario = scripts[u].messages]
              /\ scripts' = [scripts EXCEPT ![u].pc = "idle",
                                            ![u].messages = {},
                                            ![u].returned = scripts[u].messages]
         ELSE /\ scripts' = [scripts EXCEPT ![u].pc = "idle",
                                            ![u].messages = {},
                                            ![u].raised = TRUE]
              /\ UNCHANGED history
    /\ UNCHANGED <<heygen, zapcap, merge, pipeVars, credits_left,
                   payVars, ledVars>>

NextScript ==
    \E u \in Users :
       \/ edit_script(u)
       \/ choose_subtitles_style(u)
       \/ generate_script(u)
       \/ generate_script_result(u)
       \/ refine_script(u)
       \/ refine_script_result(u)

(***************************************************************************)
(* The specifications                                                      *)
(***************************************************************************)
InitPay ==
    /\ tx = NoTx
    /\ gateway = "unpaid"
    /\ credits_total = credits_left
    /\ poller = None
    /\ checkjob = None
    /\ polls = 0
    /\ pg_results = <<>>
    /\ grants = [webhook |-> 0, job |-> 0]
    /\ notified = [success |-> 0, expired |-> 0]
    /\ check_reply = NoReply

\* The user exists; whatever credits the row holds were added and not used.
InitLedger ==
    /\ now = 0
    /\ urow = UpdatePurchaseTime(
                 [status |-> "active", is_paid |-> credits_left > 0,
                  purchase_time |-> Null, credits_expire_date |-> Null],
                 credits_left > 0, now)
    /\ req = [r \in Reqs |-> NoReq]
    /\ requests = 0
    /\ expected = credits_left
    /\ trail = <<>>

InitServices ==
    /\ heygen = NoPolling
    /\ zapcap = NoPolling
    /\ merge = NoMerge
    /\ history = NoHistory
    /\ scripts = [u \in Users |-> NoCall]

Init ==
    /\ credits_left \in 0..MaxCredits
    /\ InitPipe
    /\ InitPay
    /\ InitLedger
    /\ InitServices

Next ==
    \/ handle_create_demo_callback
    \/ handle_start_avatar_generation
    \/ avatar_chosen
    \/ edit_user_script
    \/ process_user_script
    \/ \E t \in Tasks :
         \/ G_Guard(t) \/ G_Setup(t) \/ G_SetFlag(t)
         \/ G_Result(t) \/ G_Timeout(t) \/ G_Except(t)
         \/ E_Start(t) \/ E_Result(t) \/ E_Timeout(t) \/ E_Except(t)
         \/ M_Start(t) \/ M_Result(t) \/ M_Timeout(t) \/ M_Except(t)
         \/ X_Start(t) \/ X_Merge(t) \/ X_Deliver(t) \/ X_Deduct(t)
         \/ X_Reset(t) \/ X_Except(t)
         \/ JobFinish(t)

\* The pipeline of one user.
Spec == Init /\ [][Next]_vars

NextPay ==
    \/ create_payment_api
    \/ GatewayPaid
    \/ check_payment
    \/ payment_result
    \/ P_Enqueue \/ P_Expire \/ P_Result
    \/ J_Status \/ J_AddCredits \/ J_Notify

NextWorker ==
    \E t \in Tasks :
       \/ G_Guard(t) \/ G_Setup(t) \/ G_SetFlag(t)
       \/ G_Result(t) \/ G_Timeout(t) \/ G_Except(t)
       \/ E_Start(t) \/ E_Result(t) \/ E_Timeout(t) \/ E_Except(t)
       \/ run_job(t)

\* The avatar and caption stages with the tries of their jobs on the worker.
SpecWorker == Init /\ [][NextWorker]_vars

NextMusic ==
    \E t \in Tasks :
       \/ G_Guard(t) \/ G_Setup(t) \/ G_SetFlag(t)
       \/ G_Result(t) \/ G_Timeout(t) \/ G_Except(t)
       \/ E_Start(t) \/ E_Result(t) \/ E_Timeout(t) \/ E_Except(t)
       \/ M_Start(t) \/ M_Result(t) \/ M_Timeout(t) \/ M_Except(t)
       \/ run_job(t)

\* The music stage as well, with the tries of its job.
SpecMusic == Init /\ [][NextMusic]_vars

\* The adapters: the polling of one avatar video and of one caption task,
\* and one merge.
SpecPoll == Init /\ [][NextPoll]_vars

\* The script calls of two users.
SpecScript == Init /\ [][NextScript]_vars

\* One order of one user.
SpecPay == Init /\ [][NextPay]_vars

NextPaid ==
    \/ Tick
    \/ create_payment_api
    \/ GatewayPaid
    \/ check_payment
    \/ payment_result
    \/ P_Enqueue \/ P_Expire \/ P_Result
    \/ J_Status \/ J_AddCredits

\* One order of one user over the days, up to the credits it grants.
SpecPaid == Init /\ [][NextPaid]_vars

NextLedger ==
    \/ create_user
    \/ delete_user
    \/ \E r \in Reqs :
         \/ L_AddRead(r) \/ L_AddWrite(r)
         \/ L_Deduct(r) \/ L_DeductCheck(r)

\* The credits of one user's row.
SpecLedger == Init /\ [][NextLedger]_vars

NextRow ==
    \/ Tick
    \/ create_user
    \/ update_user
    \/ delete_user
    \/ \E r \in {"r1"} :
         \/ L_AddRead(r) \/ L_AddWrite(r)
         \/ L_Deduct(r) \/ L_DeductCheck(r)

\* The user's row over the days: every operation that writes it, the
\* credits requests served on one connection (the commit of add_credits
\* writes purchase_time and credits_expire_date in one UPDATE; what two
\* connections do to the credits is SpecLedger's).
SpecRow == Init /\ [][NextRow]_vars

\* An order row as the service can find it stored: with any status of
\* TransactionStatus (canceled is written by no handler of the service),
\* while the poller of the order is still within its window.
InitStored ==
    /\ credits_left \in 0..MaxCredits
    /\ InitPipe
    /\ InitLedger
    /\ InitServices
    /\ tx \in {NoTx} \cup [status : TransactionStatus, package_type : Packages]
    /\ gateway = "unpaid"
    /\ credits_total = credits_left
    /\ poller = IF tx.status = None THEN None ELSE "loop"
    /\ checkjob = None
    /\ polls = 0
    /\ pg_results = <<>>
    /\ grants = [webhook |-> 0, job |-> 0]
    /\ notified = [success |-> 0, expired |-> 0]
    /\ check_reply = NoReply

\* One order of one user, from any stored row.
SpecStored == InitStored /\ [][NextPay]_vars

TypeOK ==
    /\ session \in SessionType
    /\ handled \in 0..MaxTriggers
    /\ rejections \in 0..MaxTriggers
    /\ credits_left \in Nat
    /\ tx.status \in {None} \cup TransactionStatus

(***************************************************************************)
(* Properties of the pipeline (Spec)                                       *)
(***************************************************************************)
\* C1: a pipeline-start trigger (demo, /generate, subtitle_style:) handled
\* while is_video_generating is true is answered with the 'already
\* generating' notice, enqueues no job and leaves the session as it is.
C1_TriggerRejectedWhileGenerating ==
    [][(handled' = handled + 1 /\ session.is_video_generating = "True")
         => /\ rejections' = rejections + 1
            /\ session' = session
            /\ job' = job
            /\ \A t \in Tasks : pc'[t] \in {pc[t], "rejected"}]_vars

\* A trigger has been turned away while another task awaits its job.
C1_Witness ==
    /\ rejections > 0
    /\ session.is_video_generating = "True"
    /\ \E t, u \in Tasks : pc[t] = "rejected" /\ job[u].name # None

\* C2: at any time at most one handler task of the user has a pipeline job
\* chain under way (a job enqueued and awaited), whatever the interleaving.
C2_OneChainPerUser ==
    Cardinality({t \in Tasks : job[t].name # None}) <= 1

\* C3: a run issues a credits/deduct request only after the final video has
\* been sent, never more than one, and a run that sent the video and has
\* left the debit step has issued exactly one.
C3_OneDeductAfterDelivery ==
    \A t \in Tasks :
       /\ run[t].deducts <= 1
       /\ run[t].deducts > 0 => run[t].delivered
       /\ (run[t].delivered /\ pc[t] # "x_deduct") => run[t].deducts = 1

\* A run has sent the final video, been charged one credit and ended.
C3_Witness ==
    \E t \in Tasks :
       /\ pc[t] = "returned"
       /\ run[t].delivered
       /\ run[t].deducts = 1
       /\ ~run[t].failed
       /\ credits_left = credits_total - 1

\* C4: a run in which a step before delivery failed issues no credits/deduct
\* request.
C4_NoDeductAfterFailure ==
    \A t \in Tasks : run[t].failed => run[t].deducts = 0

\* C5: is_video_generating is true whenever a job of a stage is enqueued
\* and awaited.
C5_FlagHeldWhileStageRuns ==
    \A t \in Tasks : job[t].name # None => session.is_video_generating = "True"

\* C6: once every handler task of the user has ended, however it ended,
\* is_video_generating is not true.
C6_FlagReleasedAtEnd ==
    (\A t \in Tasks : pc[t] \in Idle) => session.is_video_generating # "True"

\* The positions of the stages that follow the caption stage.
LaterStage == {"m_start", "m_await", "x_start", "x_merge", "x_deliver", "x_deduct"}

\* C16: a run in which the caption job or the music job has failed is in no
\* later stage and has no further job enqueued.
C16_FailedStageNeverAdvances ==
    \A t \in Tasks :
       run[t].failed => (pc[t] \notin LaterStage /\ job[t].name = None)

\* C17: when the avatar-video job ends with an error (an error payload, a
\* raised exception, a None handle, a timeout), the handler goes to its
\* except block and leaves it with is_video_generating false, without
\* starting the caption stage, enqueueing a job or debiting a credit.
C17_AvatarErrorAborts ==
    [][\A t \in Tasks :
         /\ (pc[t] = "g_await" /\ pc'[t] # "g_await" /\ job[t].result # "url")
              => pc'[t] = "g_except"
         /\ (pc[t] = "g_flag" /\ pc'[t] # "g_flag" /\ job'[t].name = None)
              => pc'[t] = "g_except"
         /\ (pc[t] = "g_except" /\ pc'[t] # "g_except")
              => (/\ session'.is_video_generating = "False"
                  /\ pc'[t] \in {"returned", "raised"}
                  /\ job' = job
                  /\ credits_left' = credits_left
                  /\ run'[t].deducts = 0)]_vars

\* The only run so far has ended in the except block of the video stage.
C17_Witness ==
    \E t \in Tasks :
       /\ handled = 1
       /\ pc[t] = "returned"
       /\ run[t].failed
       /\ run[t].deducts = 0
       /\ session.is_video_generating = "False"
       /\ session.video_editing.present
       /\ session.avatar.video_url = None
       /\ credits_left = credits_total

\* C18: a stage handler that finds an artifact missing does not end by
\* raising: the merge stage entered without a captioned-video URL in the
\* session does not raise.
C18_NoExceptionLeavesStage ==
    [][\A t \in Tasks :
         (pc[t] = "x_start" /\ session.video_editing.zapcap_video_url = None)
           => pc'[t] # "raised"]_vars

\* C19: a run sends at most one failure notice, a failed run that has
\* returned has sent exactly one, and no stage-start message follows a
\* failure.
C19_OneFailureNotice ==
    \A t \in Tasks :
       /\ run[t].notices <= 1
       /\ (run[t].failed /\ pc[t] = "returned") => run[t].notices = 1
       /\ run[t].failed => pc[t] \notin {"m_await", "m_except", "x_merge"}

C7_OneGrantPerOrder ==
    (Len(pg_results) <= 1 /\ polls <= 1) => grants.webhook + grants.job <= 1

\* C8: a /result request with pg_result = 1 for an order that is already
\* completed leaves credits_left and credits_total as they are.
C8_RepeatedResultGrantsNothing ==
    [][(/\ tx.status = "completed"
        /\ Len(pg_results') = Len(pg_results) + 1
        /\ pg_results'[Len(pg_results')] = "1")
         => (credits_left' = credits_left /\ credits_total' = credits_total)]_vars

\* C9: over the whole polling loop check_payment_status_job applies
\* add_credits at most once, and a loop it stopped has granted once and
\* sent the success message once.
C9_JobGrantsOnce ==
    /\ grants.job <= 1
    /\ poller = "stopped" => (grants.job = 1 /\ notified.success = 1)

\* C10: a transaction that is completed, failed or canceled keeps its status.
C10_TerminalStatusKept ==
    [][tx.status \in {"completed", "failed", "canceled"}
         => tx'.status = tx.status]_vars

(***************************************************************************)
(* Properties of the ledger (SpecLedger)                                   *)
(***************************************************************************)
\* C11: credits_left is never negative after any step of create_user,
\* add_credits and deduct_credits, and a deduct_credits request for more
\* than the current credits_left changes nothing in the row.
C11_CreditsNeverNegative ==
    [][/\ credits_left' >= 0
       /\ \A r \in Reqs :
            (/\ req'[r].n # req[r].n
             /\ req'[r].op = "deduct"
             /\ req'[r].credits > credits_left)
              => (/\ credits_left' = credits_left
                  /\ credits_total' = credits_total
                  /\ urow' = urow)]_vars

\* A deduction for more than the balance has been refused.
C11_Witness ==
    \E r \in Reqs :
       /\ req[r].op = "deduct"
       /\ req[r].error = "InsufficientCreditsError"
       /\ req[r].credits > credits_left
       /\ credits_left > 0

\* C12: once every add_credits and deduct_credits request has been
\* answered, credits_left is the initial balance plus the amounts added
\* minus the amounts deducted.
C12_NoLostUpdate ==
    (\A r \in Reqs : req[r].pc \in {"idle", "done"}) => credits_left = expected

\* C13: for an existing user with balance b, deduct_credits(b + 1) changes
\* neither credits_left nor credits_total nor is_paid, and the service
\* fails with InsufficientCreditsError for a user that exists and with
\* ResourceNotFoundError for one that does not.
C13_DeductOneTooMany ==
    [][\A r \in Reqs :
         /\ (/\ req'[r].n # req[r].n
             /\ req'[r].op = "deduct"
             /\ GetUser
             /\ req'[r].credits = credits_left + 1)
              => (/\ req'[r].pc = "d_check"
                  /\ credits_left' = credits_left
                  /\ credits_total' = credits_total
                  /\ urow' = urow)
         /\ (req[r].pc = "d_check" /\ req'[r].pc = "done")
              => (/\ req'[r].error = IF GetUser THEN "InsufficientCreditsError"
                                     ELSE "ResourceNotFoundError"
                  /\ credits_left' = credits_left
                  /\ credits_total' = credits_total
                  /\ urow' = urow)]_vars

\* deduct_credits(b + 1) has failed with InsufficientCreditsError.
C13_Witness ==
    \E r \in Reqs :
       /\ GetUser
       /\ req[r].op = "deduct"
       /\ req[r].pc = "done"
       /\ req[r].credits = credits_left + 1
       /\ req[r].error = "InsufficientCreditsError"

\* C14: when the last two writes to the row are add_credits(N) and then
\* deduct_credits(N), credits_left is what it was when add_credits was
\* called, and is_paid is true.
C14_AddThenDeduct ==
    (/\ Len(trail) = 2
     /\ trail[1].op = "add"
     /\ trail[2].op = "deduct"
     /\ trail[1].credits = trail[2].credits)
      => (credits_left = trail[1].before /\ urow.is_paid)

\* add_credits(N) and deduct_credits(N) have run one after the other on a
\* user who had never paid.
C14_Witness ==
    /\ Len(trail) = 2
    /\ trail[1].op = "add"
    /\ trail[2].op = "deduct"
    /\ trail[1].credits = trail[2].credits
    /\ credits_total = trail[1].credits
    /\ credits_left = 0
    /\ urow.is_paid

\* C15: the deduct endpoint answers 200 when the debit is applied, 402 when
\* the user has too few credits and 404 when the user does not exist.
C15_DeductStatusCodes ==
    \A r \in Reqs :
       (req[r].op = "deduct" /\ req[r].pc = "done")
         => /\ req[r].error = None => req[r].status = 200
            /\ req[r].error = "InsufficientCreditsError" => req[r].status = 402
            /\ req[r].error = "ResourceNotFoundError" => req[r].status = 404

(***************************************************************************)
(* Properties of Spec: the end of a run                                    *)
(***************************************************************************)
\* C21: once the final video has been delivered, a failure of the
\* credits/deduct request sends no failure notice to the chat: the step that
\* handles it leaves the count of notices as it was.
C21_NoNoticeAfterDebitFailure ==
    [][\A t \in Tasks :
         (pc[t] = "x_except" /\ run[t].delivered /\ pc'[t] # "x_except")
            => run'[t].notices = run[t].notices]_vars

\* C22: the step that ends a successful run leaves the session with
\* is_video_generating False and without script, avatar and artifact URLs,
\* so that the entry guard lets the next trigger through.
C22_SessionResetAfterSuccess ==
    [][\A t \in Tasks :
         (pc[t] = "x_reset" /\ pc'[t] # "x_reset")
            => /\ session' = Preserved(session, "False")
               /\ ~IsGenerating(session'.is_video_generating)]_vars

(***************************************************************************)
(* Properties of SpecStored and SpecPay: the callbacks of the gateway      *)
(***************************************************************************)
\* C23: /check answers ok exactly when the order exists, its status is
\* pending or processing and the amount matches, and the row is processing
\* afterwards; every other request (no such order, a completed, failed or
\* canceled one, a wrong amount) is answered rejected and the row keeps the
\* status it had.
C23_CheckAnswers ==
    check_reply.pg_status # None
       => /\ check_reply.pg_status = "ok"
               <=> /\ check_reply.order_status \in {"pending", "processing"}
                   /\ check_reply.amount_ok
          /\ check_reply.pg_status = "ok" => check_reply.stored = "processing"
          /\ check_reply.pg_status = "rejected"
               => check_reply.stored = check_reply.order_status

\* A canceled order with the right amount has been rejected, and
\* the row is still canceled.
C23_Witness ==
    /\ check_reply.order_status = "canceled"
    /\ check_reply.amount_ok
    /\ check_reply.pg_status = "rejected"
    /\ tx.status = "canceled"

C25_PaidResultGrantsPackage ==
    [][(tx.status = "pending" /\ pg_results' = Append(pg_results, "1"))
          => /\ tx'.status = "completed"
             /\ \A p \in {<<"10", 10>>, <<"30", 30>>, <<"50", 50>>, <<"100", 100>>} :
                  tx.package_type = p[1]
                     => /\ credits_left' = credits_left + p[2]
                        /\ credits_total' = credits_total + p[2]
             /\ urow'.is_paid
             /\ urow'.purchase_time = {now}
             /\ urow'.credits_expire_date = {now + 28}]_vars

\* The first /result of a '30' order said 1, a day after the service started:
\* the order is completed and the row holds 30 credits more, bought today.
C25_Witness ==
    /\ tx = [status |-> "completed", package_type |-> "30"]
    /\ pg_results = <<"1">>
    /\ grants = [webhook |-> 1, job |-> 0]
    /\ credits_left \in {30, 31}
    /\ credits_total = credits_left
    /\ now = 1
    /\ urow.is_paid
    /\ urow.purchase_time = {1}
    /\ urow.credits_expire_date = {29}

\* The window of the poller is over, the gateway has confirmed nothing and
\* no /result has come.
WindowElapsed ==
    /\ poller = "expired"
    /\ gateway = "unpaid"
    /\ pg_results = <<>>

\* C26: when the window is over without a confirmation of the gateway and
\* without a /result, the poller has no job enqueued, the chat got the
\* 'payment not completed' notice once and no success message, no credits
\* were granted, and the order is pending or processing; a /result with
\* pg_result 1 that comes then completes it and grants the package.
C26_WindowElapsedLeavesOrderOpen ==
    [][/\ WindowElapsed'
          => /\ checkjob' = None
             /\ notified' = [success |-> 0, expired |-> 1]
             /\ grants' = [webhook |-> 0, job |-> 0]
             /\ tx'.status \in {"pending", "processing"}
       /\ (WindowElapsed /\ pg_results' = <<"1">>)
          => /\ tx'.status = "completed"
             /\ grants' = [webhook |-> 1, job |-> 0]
             /\ credits_left' = credits_left + PackageCredits(tx.package_type)]_vars

\* The window is over after a status request that found the order unpaid.
C26_Witness ==
    /\ WindowElapsed
    /\ polls > 0
    /\ tx.status = "processing"
    /\ notified.expired = 1

\* C29: when enqueue_job hands the poller no job handle, the poller awaits
\* no result and tells the chat that the payment check was given up.
C29_PollerWithoutHandleNotifies ==
    [][(poller = "loop" /\ polls' = polls + 1 /\ checkjob' = None)
          => /\ poller' \in {"stopped", "expired"}
             /\ notified' # notified]_vars

(***************************************************************************)
(* Properties of SpecRow: the dates of the user's row                      *)
(***************************************************************************)
\* C27: in every state that create_user, add_credits (with and without
\* update_purchase_time), deduct_credits, update_user, delete_user and the
\* re-creation of a deleted user lead to, credits_expire_date is null exactly
\* when purchase_time is null, and is purchase_time plus 28 days otherwise.
C27_ExpireDateFollowsPurchaseTime ==
    /\ urow.credits_expire_date = Null <=> urow.purchase_time = Null
    /\ urow.credits_expire_date = {p + 28 : p \in urow.purchase_time}

\* A purchase stamped on day 1 whose is_paid was cleared by update_user
\* afterwards, with credits of it left.
C27_Witness ==
    /\ urow.status = "active"
    /\ urow.purchase_time = {1}
    /\ urow.credits_expire_date = {29}
    /\ ~urow.is_paid
    /\ credits_left > 0

C30_HeygenJobPolicy ==
    \A t \in Tasks :
       (job[t].name = "heygen_generate_video_job" /\ job[t].job_try > 0)
          => /\ job[t].response \in {"5xx", "network"}
                  => job[t].status = "queued"
             /\ job[t].response \in {"400", "401", "404"}
                  => job[t].status = "complete" /\ job[t].result = "error_payload"

(***************************************************************************)
(* Retries of the caption and music jobs                                   *)
(***************************************************************************)
\* C31: every Retry raised by a try of the caption job or of the music job
\* defers the job by 5 * job_try seconds, is raised only for an answer whose
\* status code lies in 500..599, and defers by strictly more than the Retry
\* of the try before.
C31_RetryOnlyFor5xx ==
    [][\A t \in Tasks :
         (/\ job[t].name \in {"zapcap_edit_video_job", "generate_music_job"}
          /\ job'[t].job_try = job[t].job_try + 1
          /\ job'[t].status = "queued")
            => /\ job'[t].defer = 5 * job'[t].job_try
               /\ job'[t].defer > job[t].defer
               /\ StatusCode(job'[t].response) \in 500..599]_vars

\* C32: the caption and music jobs return a URL only when their remote calls
\* succeeded; a try that met a 4xx answer ends the job as failed (it raises
\* and returns no value); a try that met a 5xx answer leaves the job on the
\* queue for another try.
C32_FailOn4xxRetryOn5xx ==
    \A t \in Tasks :
       (/\ job[t].name \in {"zapcap_edit_video_job", "generate_music_job"}
        /\ job[t].job_try > 0)
          => /\ job[t].result = "url" => job[t].response = "ok"
             /\ job[t].response \in {"400", "401", "404"}
                  => job[t].status = "complete" /\ job[t].result = "raised"
             /\ (job[t].response = "5xx" /\ job[t].job_try < max_tries)
                  => job[t].status = "queued"

(***************************************************************************)
(* Properties of SpecPoll: the adapters                                    *)
(***************************************************************************)
\* C33: the polling of an avatar video ends on two statuses only:
\* 'completed' returns the video URL and 'failed' raises an error with the
\* provider's code and message; on any other status the adapter sleeps for
\* the polling interval and asks again. (A request that fails, and a
\* 'completed' answer without a URL, raise as well.)
C33_TwoTerminalStatuses ==
    /\ heygen.pc = "returned"
         => heygen.status = "completed" /\ heygen.result = "url"
    /\ heygen.pc = "raised"
         => \/ heygen.status = "failed" /\ heygen.error = "provider_error"
            \/ heygen.status = "completed" /\ heygen.error = "url_not_found"
            \/ heygen.error = "request_failed"
    /\ heygen.pc = "poll" => heygen.slept = heygen.requests * polling_interval

\* C34: check_task_status makes at most 30 status requests: it returns the
\* download URL at the first answer 'completed' (it raises when that answer
\* has no downloadUrl), raises at the first answer 'failed', and raises the
\* polling-exhausted error after the 30th request when neither was seen; it
\* never goes on polling after any of these.
C34_CaptionPollingTerminates ==
    /\ zapcap.requests <= max_attempts
    /\ zapcap.pc = "poll"
         => /\ zapcap.requests < max_attempts
            /\ zapcap.status \notin {"completed", "failed"}
            /\ zapcap.slept = zapcap.requests * delay
    /\ zapcap.status = "completed"
         => \/ zapcap.pc = "returned" /\ zapcap.result = "url"
            \/ zapcap.pc = "raised" /\ zapcap.error = "url_not_found"
    /\ zapcap.pc = "returned" => zapcap.status = "completed"
    /\ zapcap.status = "failed"
         => zapcap.pc = "raised" /\ zapcap.error = "task_failed"
    /\ zapcap.error = "polling_exhausted"
         => /\ zapcap.pc = "raised"
            /\ zapcap.requests = max_attempts
            /\ zapcap.status \notin {"completed", "failed"}

\* The 30th request was answered 'processing' and the polling gave up.
C34_Witness ==
    /\ zapcap.pc = "raised"
    /\ zapcap.error = "polling_exhausted"
    /\ zapcap.requests = 30
    /\ zapcap.status = "processing"

\* C36: merge_video_and_music has removed its three temporary files whenever
\* it is over, whether it returns or raises (at the download, at ffprobe, at
\* ffmpeg or at the upload).
C36_TempFilesRemoved ==
    merge.pc \in {"returned", "raised"} => merge.files = {}

(***************************************************************************)
(* Properties of SpecScript: the script history                            *)
(***************************************************************************)
\* C37: a script returned to a user by generate_script or refine_script is
\* derived from that user's own inputs and earlier scripts only, whatever
\* the other user's calls and however they interleave.
C37_ScriptFromOwnInputs ==
    \A u \in Users : scripts[u].returned \subseteq {u}

(***************************************************************************)
(* Properties of Spec: what an aborted run leaves in the session           *)
(***************************************************************************)
\* C35: when a run that aborted in the avatar, caption, music or merge stage
\* ends, the session holds is_video_generating = False and no avatar video
\* URL, no captioned video URL and no music URL.
C35_AbortDropsArtifacts ==
    [][\A t \in Tasks :
         (/\ pc[t] \notin {"returned", "raised"}
          /\ pc'[t] \in {"returned", "raised"}
          /\ run'[t].failed)
            => /\ session'.is_video_generating = "False"
               /\ session'.avatar.video_url = None
               /\ session'.video_editing.zapcap_video_url = None
               /\ session'.video_editing.music_url = None]_vars

(***************************************************************************)
(* Properties of Spec: credits at the start of a run                       *)
(***************************************************************************)
\* bot/api/user.py, check_user_credits: GET /api/users/{id}; fromisoformat
\* raises TypeError on a null credits_expire_date.
check_user_credits ==
    IF ~GetUser THEN "False"
    ELSE IF urow.credits_expire_date = Null THEN "raised"
    ELSE IF credits_left <= 0 \/ \E e \in urow.credits_expire_date : now > e
    THEN "False"
    ELSE "True"

\* C38: whenever the 'subtitle_style:' handler enqueues the avatar-video job,
\* the user has credits left and they have not expired (check_user_credits
\* would grant access).
C38_StartedOnlyWithCredits ==
    [][\A t \in Tasks :
         (/\ job[t].name # "heygen_generate_video_job"
          /\ job'[t].name = "heygen_generate_video_job")
            => /\ credits_left > 0
               /\ check_user_credits = "True"]_vars

(***************************************************************************)
(* Properties of SpecPay: the status of an order when credits are granted  *)
(***************************************************************************)
\* C39: every add_credits of the /result webhook and of
\* check_payment_status_job happens while the order's row holds status
\* completed, and a /result call for an order that has no row changes
\* neither a transaction nor the user.
C39_GrantOnlyWhileCompleted ==
    [][/\ grants' # grants => tx.status = "completed" \/ tx'.status = "completed"
       /\ tx.status = None
            => /\ grants' = grants
               /\ credits_left' = credits_left
               /\ credits_total' = credits_total
               /\ urow' = urow
               /\ tx'.status \in {None, "pending", "failed"}]_vars

(***************************************************************************)
(* Properties of SpecLedger: the expiry date of a paid balance             *)
(***************************************************************************)
\* C40: in every state the ledger operations reach, a user whose is_paid is
\* true or whose credits_left is greater than zero has a credits_expire_date
\* that is not null.
C40_PaidBalanceHasExpiry ==
    (GetUser /\ (urow.is_paid \/ credits_left > 0))
       => urow.credits_expire_date # Null

====
